---- MODULE Spec2Model ----
(***************************************************************************)
(* Model of src/src/App.tsx: the tidy-tree layout (layoutTree), the        *)
(* bounding box (getTreeBounds), the re-centering done by App's render     *)
(* body, the tree edits (addFamilyMember) and the export (handleExport).   *)
(*                                                                         *)
(* Numbers.  Every pixel quantity is a JavaScript number.  The values the  *)
(* code computes from integer inputs are halved at most four times in a    *)
(* row (spacingX * 0.5, width / 2, the average of two x, the middle of the *)
(* bounds), so they are multiples of 1/16 and exact as doubles.  The model *)
(* stores a number v as the integer v * Unit.                              *)
(***************************************************************************)
EXTENDS Integers, Sequences, FiniteSets, TLC

VARIABLES
    \* ---- App's React state (App.tsx 250-254) ----
    root,            \* <<>> for null, <<member>> for a FamilyMember
    inputName,       \* the text of the input, a sequence of characters
    showInput,
    selectedParent,  \* null or an id
    isExporting,
    \* ---- handleExport's pending asynchronous work (App.tsx 286-303) ----
    timers,          \* setTimeout callbacks scheduled and not yet run
    captures,        \* toPng promises started and not yet settled
    \* ---- one evaluation of the render body (App.tsx 305-322) ----
    node,            \* the tree handed to layoutTree
    argX, argY,      \* the anchor handed to layoutTree for the root
    argSX, argSY,    \* spacingX, spacingY handed to layoutTree
    treeLayout,      \* <<>> for null, <<positioned>> once laid out
    bounds,          \* the accumulator of getTreeBounds
    pc               \* position in the render body

appVars    == <<root, inputName, showInput, selectedParent, isExporting, timers, captures>>
layoutVars == <<node, argX, argY, argSX, argSY, treeLayout, bounds, pc>>
vars       == <<root, inputName, showInput, selectedParent, isExporting, timers, captures,
                node, argX, argY, argSX, argSY, treeLayout, bounds, pc>>

-----------------------------------------------------------------------------
(* Bounds of the model *)

MaxTreeNodes == 6      \* largest tree handed to layoutTree
MaxNodes     == 3      \* App: adds are taken while the tree has at most this many nodes
MaxRandom    == 2      \* App: Math.random() yields one of 0..MaxRandom
MaxNameLen   == 2      \* App: longest text typed into the input
MaxExports   == 2      \* App: most clicks on Export

-----------------------------------------------------------------------------
(* Numbers *)

Unit == 16
Px(n) == n * Unit

spacingX   == 180
spacingY   == 160
FootprintW == 100
FootprintH == 80
RootAnchorX == 0
RootAnchorY == 80
HalfFootprint == 50

Infinity == 1000000000     \* stands for the double Infinity; -Infinity is its negation

MathMax(a, b) == IF a >= b THEN a ELSE b
MathMin(a, b) == IF a <= b THEN a ELSE b

-----------------------------------------------------------------------------
(* Trees.  A node of a tree is named by its path: the sequence of child    *)
(* indices (1-based) leading to it from the root.                          *)

RECURSIVE Paths(_)
Paths(t) ==
    {<<>>} \cup UNION {{<<i>> \o p : p \in Paths(t.children[i])} : i \in 1..Len(t.children)}

RECURSIVE NodeAt(_, _)
NodeAt(t, p) == IF p = <<>> THEN t ELSE NodeAt(t.children[Head(p)], Tail(p))

TreeSize(t) == Cardinality(Paths(t))

NodeIds(t) == {NodeAt(t, p).id : p \in Paths(t)}

SetMin(S) == CHOOSE m \in S : \A s \in S : m <= s
SetMax(S) == CHOOSE m \in S : \A s \in S : m >= s

-----------------------------------------------------------------------------
(* layoutTree (App.tsx 90-130) *)

\* The child kept on its parent's level.
ChildYSameLevel(y, sY) == y

\* line 105: the y handed to each child
ChildY(y, sY) == y + sY

RECURSIVE SumWidths(_)
SumWidths(childLayouts) ==
    IF childLayouts = <<>> THEN 0
    ELSE Head(childLayouts).width + SumWidths(Tail(childLayouts))

\* The width of an internal node without the gaps between its children.
SubtreeWidthNoGaps(childLayouts, sX) == MathMax(SumWidths(childLayouts), sX)

\* lines 108-110
SubtreeWidth(childLayouts, sX) ==
    LET totalChildrenWidth == SumWidths(childLayouts)
        totalSpacing       == (sX \div 2) * (Len(childLayouts) - 1)
    IN MathMax(totalChildrenWidth + totalSpacing, sX)

\* lines 113-117: the forEach, from child i on, with currentX as it stands
RECURSIVE PlaceFrom(_, _, _, _, _)
PlaceFrom(childLayouts, i, currentX, gap, children) ==
    IF i > Len(childLayouts) THEN children
    ELSE LET childLayout == childLayouts[i]
             placed      == [childLayout EXCEPT !.x = currentX + childLayout.width \div 2]
         IN PlaceFrom(childLayouts, i + 1, currentX + childLayout.width + gap, gap,
                      Append(children, placed))

\* The packing with currentX advanced by the child's width only.
PositionChildrenNoGap(childLayouts, x, width, sX) ==
    PlaceFrom(childLayouts, 1, x - width \div 2, 0, <<>>)

\* lines 112-117
PositionChildren(childLayouts, x, width, sX) ==
    PlaceFrom(childLayouts, 1, x - width \div 2, sX \div 2, <<>>)

\* line 119
CenterX(children) ==
    IF Len(children) = 1 THEN children[1].x
    ELSE (children[1].x + children[Len(children)].x) \div 2

RECURSIVE layoutTree(_, _, _, _, _, _, _, _)
layoutTree(n, x, y, level, siblingIndex, siblingsCount, sX, sY) ==
    IF Len(n.children) > 0
    THEN LET childLayouts ==
                 [i \in 1..Len(n.children) |->
                     layoutTree(n.children[i], 0, ChildY(y, sY), level + 1, i - 1,
                                Len(n.children), sX, sY)]
             width    == SubtreeWidth(childLayouts, sX)
             children == PositionChildren(childLayouts, x, width, sX)
         IN [id |-> n.id, name |-> n.name, x |-> CenterX(children), y |-> y,
             width |-> width, children |-> children]
    ELSE [id |-> n.id, name |-> n.name, x |-> x, y |-> y,
          width |-> sX, children |-> <<>>]

-----------------------------------------------------------------------------
(* getTreeBounds (App.tsx 225-234) *)

\* line 225: the default accumulator
DefaultBounds == [minX |-> Infinity, maxX |-> -Infinity, minY |-> Infinity, maxY |-> -Infinity]

\* The accumulation with the footprint left out of the maxima.
VisitNoFootprint(b, n) ==
    [minX |-> MathMin(b.minX, n.x), maxX |-> MathMax(b.maxX, n.x),
     minY |-> MathMin(b.minY, n.y), maxY |-> MathMax(b.maxY, n.y)]

\* lines 226-229
Visit(b, n) ==
    [minX |-> MathMin(b.minX, n.x),
     maxX |-> MathMax(b.maxX, n.x + Px(FootprintW)),
     minY |-> MathMin(b.minY, n.y),
     maxY |-> MathMax(b.maxY, n.y + Px(FootprintH))]

\* lines 225-234; the forEach of line 231 is the fold from child i on
RECURSIVE getTreeBounds(_, _), BoundsFrom(_, _, _)
getTreeBounds(n, b) == BoundsFrom(n.children, 1, Visit(b, n))
BoundsFrom(children, i, b) ==
    IF i > Len(children) THEN b
    ELSE BoundsFrom(children, i + 1, getTreeBounds(children[i], b))

-----------------------------------------------------------------------------
(* The render body of App (App.tsx 305-322) *)

\* The shift to the middle of the bounds without the half footprint.
RecenterNoHalf(b) == (b.minX + b.maxX) \div 2

\* line 321
Recenter(b) == (b.minX + b.maxX) \div 2 - Px(HalfFootprint)

-----------------------------------------------------------------------------
(* The trees handed to layoutTree: every ordered tree of at most           *)
(* MaxTreeNodes nodes, each node with an id of its own.                    *)

RECURSIVE TreesAt(_, _), ForestsAt(_, _, _)
TreesAt(n, id) ==
    {[id |-> id, name |-> <<"A">>, children |-> f] : f \in ForestsAt(n - 1, id, 1)}
ForestsAt(n, pid, i) ==
    IF n = 0 THEN {<<>>}
    ELSE UNION {{<<t>> \o f : t \in TreesAt(k, pid \o ToString(i)),
                              f \in ForestsAt(n - k, pid, i + 1)} : k \in 1..n}

InputTrees == UNION {TreesAt(n, "r") : n \in 1..MaxTreeNodes}

InputX  == {Px(RootAnchorX), Px(FootprintW)}
InputY  == {Px(RootAnchorY), 0}
InputSX == {Px(spacingX), Px(FootprintW)}
InputSY == {Px(spacingY), Px(FootprintH)}

AppIdle ==
    /\ root = <<>> /\ inputName = <<>> /\ showInput = FALSE
    /\ selectedParent = "null" /\ isExporting = FALSE
    /\ timers = 0 /\ captures = 0

InitLayout ==
    /\ AppIdle
    /\ node \in InputTrees
    /\ argX \in InputX /\ argY \in InputY
    /\ argSX \in InputSX /\ argSY \in InputSY
    /\ treeLayout = <<>>
    /\ bounds = DefaultBounds
    /\ pc = "start"

\* line 313
LayoutStep ==
    /\ pc = "start"
    /\ treeLayout' = <<layoutTree(node, argX, argY, 0, 0, 1, argSX, argSY)>>
    /\ pc' = "laid"
    /\ UNCHANGED <<node, argX, argY, argSX, argSY, bounds>>
    /\ UNCHANGED appVars

\* line 315
BoundsStep ==
    /\ pc = "laid"
    /\ bounds' = getTreeBounds(treeLayout[1], DefaultBounds)
    /\ pc' = "bounded"
    /\ UNCHANGED <<node, argX, argY, argSX, argSY, treeLayout>>
    /\ UNCHANGED appVars

\* line 321
RecenterStep ==
    /\ pc = "bounded"
    /\ treeLayout' = <<[treeLayout[1] EXCEPT !.x = Recenter(bounds)]>>
    /\ pc' = "centered"
    /\ UNCHANGED <<node, argX, argY, argSX, argSY, bounds>>
    /\ UNCHANGED appVars

NextLayout == LayoutStep \/ BoundsStep \/ RecenterStep

SpecLayout == InitLayout /\ [][NextLayout]_vars

-----------------------------------------------------------------------------
(* App (App.tsx 249-407) *)

null == "null"

\* `!v` for v: string | null (lines 263, 377): null and the empty string are falsy
Falsy(v) == v = null \/ v = ""

\* The texts that can stand in the input: characters are a space or a letter.
Chars == {" ", "A"}
Texts == UNION {[1..n -> Chars] : n \in 0..MaxNameLen}

\* String.prototype.trim (lines 209, 335, 389)
RECURSIVE TrimStart(_), TrimEnd(_)
TrimStart(s) == IF s # <<>> /\ Head(s) = " " THEN TrimStart(Tail(s)) ELSE s
TrimEnd(s) ==
    IF s # <<>> /\ s[Len(s)] = " " THEN TrimEnd(SubSeq(s, 1, Len(s) - 1)) ELSE s
Trim(s) == TrimEnd(TrimStart(s))

\* line 259: Math.random().toString(36).substr(2, 9).  Math.random() yields a
\* double in [0, 1); r stands for the digits of its base-36 expansion after
\* "0.".  The double 0 prints as "0", of which substr(2, 9) is "".
RandomDraws == 0..MaxRandom
RandomId(r) == IF r = 0 THEN "" ELSE ToString(r)

\* lines 266-277
RECURSIVE addChild(_, _, _)
addChild(member, parentId, newMember) ==
    IF member.id = parentId
    THEN [member EXCEPT !.children = Append(member.children, newMember)]
    ELSE [member EXCEPT !.children =
             [i \in 1..Len(member.children) |->
                 addChild(member.children[i], parentId, newMember)]]

\* The adds are taken while the tree is small.
CanGrow == root = <<>> \/ TreeSize(root[1]) <= MaxNodes

\* lines 257-284, with r the outcome of Math.random()
addFamilyMember(parentId, name, r) ==
    LET newMember == [id |-> RandomId(r), name |-> name, children |-> <<>>] IN
    /\ root' = IF Falsy(parentId) THEN <<newMember>>
               ELSE IF root # <<>> THEN <<addChild(root[1], parentId, newMember)>>
               ELSE <<>>
    /\ inputName' = <<>>
    /\ showInput' = FALSE
    /\ selectedParent' = null
    /\ UNCHANGED <<isExporting, timers, captures>>
    /\ UNCHANGED layoutVars

\* An input is on the page: the first member's (329), a node's (200) or the
\* one below the tree (377).
InputRendered ==
    \/ root = <<>>
    \/ showInput /\ selectedParent \in NodeIds(root[1])
    \/ showInput /\ Falsy(selectedParent)

\* onChange (lines 207, 333, 387)
TypeName(v) ==
    /\ InputRendered
    /\ inputName' = v
    /\ UNCHANGED <<root, showInput, selectedParent, isExporting, timers, captures>>
    /\ UNCHANGED layoutVars

\* onKeyDown of the first member's input (lines 334-338)
EnterFirstMember(r) ==
    /\ root = <<>>
    /\ Trim(inputName) # <<>>
    /\ addFamilyMember(null, Trim(inputName), r)

\* the + button of the node with this id (lines 188-198, 363-366)
ClickAdd(id) ==
    /\ root # <<>>
    /\ ~isExporting
    /\ id \in NodeIds(root[1])
    /\ showInput' = TRUE
    /\ selectedParent' = id
    /\ UNCHANGED <<root, inputName, isExporting, timers, captures>>
    /\ UNCHANGED layoutVars

\* onKeyDown of the input under the node with this id (lines 200-215)
EnterChild(id, r) ==
    /\ root # <<>> /\ CanGrow
    /\ id \in NodeIds(root[1])
    /\ selectedParent = id /\ showInput
    /\ Trim(inputName) # <<>>
    /\ addFamilyMember(id, Trim(inputName), r)

\* onKeyDown of the input below the tree (lines 376-397)
EnterBelowTree(r) ==
    /\ root # <<>> /\ CanGrow
    /\ showInput /\ Falsy(selectedParent)
    /\ Trim(inputName) # <<>>
    /\ addFamilyMember(selectedParent, Trim(inputName), r)

\* handleExport up to the setTimeout (lines 286-288, 302); the button is on
\* the page once there is a root (line 398)
ClickExport ==
    /\ root # <<>>
    /\ timers + captures < MaxExports
    /\ isExporting' = TRUE
    /\ timers' = timers + 1
    /\ UNCHANGED <<root, inputName, showInput, selectedParent, captures>>
    /\ UNCHANGED layoutVars

\* the timeout's callback up to the await (lines 288-292); without the
\* element it runs to line 301
TimerFires ==
    /\ timers > 0
    /\ timers' = timers - 1
    /\ IF root # <<>>
       THEN captures' = captures + 1 /\ UNCHANGED isExporting
       ELSE isExporting' = FALSE /\ UNCHANGED captures
    /\ UNCHANGED <<root, inputName, showInput, selectedParent>>
    /\ UNCHANGED layoutVars

\* toPng settles, resolved or rejected, and the callback runs on to line 301
CaptureSettles ==
    /\ captures > 0
    /\ captures' = captures - 1
    /\ isExporting' = FALSE
    /\ UNCHANGED <<root, inputName, showInput, selectedParent, timers>>
    /\ UNCHANGED layoutVars

Init ==
    /\ AppIdle
    /\ node = [id |-> "r", name |-> <<"A">>, children |-> <<>>]
    /\ argX = Px(RootAnchorX) /\ argY = Px(RootAnchorY)
    /\ argSX = Px(spacingX) /\ argSY = Px(spacingY)
    /\ treeLayout = <<>>
    /\ bounds = DefaultBounds
    /\ pc = "idle"

Next ==
    \/ \E v \in Texts : TypeName(v)
    \/ \E r \in RandomDraws : EnterFirstMember(r)
    \/ \E id \in {RandomId(r) : r \in RandomDraws} : ClickAdd(id)
    \/ \E id \in {RandomId(r) : r \in RandomDraws}, r \in RandomDraws : EnterChild(id, r)
    \/ \E r \in RandomDraws : EnterBelowTree(r)
    \/ ClickExport
    \/ TimerFires
    \/ CaptureSettles

Spec == Init /\ [][Next]_vars

-----------------------------------------------------------------------------
(* Properties of the layout *)

TL == treeLayout[1]

IsLeaf(n)     == Len(n.children) = 0
IsInternal(n) == Len(n.children) > 0
LeftEdge(c)   == c.x - c.width \div 2
RightEdge(c)  == c.x + c.width \div 2
StandardArgs  ==
    /\ argX = Px(RootAnchorX) /\ argY = Px(RootAnchorY)
    /\ argSX = Px(spacingX) /\ argSY = Px(spacingY)
Leaf(id) == [id |-> id, name |-> <<"A">>, children |-> <<>>]
TwoLeafTree == [id |-> "r", name |-> <<"A">>, children |-> <<Leaf("r1"), Leaf("r2")>>]

\* The footprints of a and b (FootprintW by FootprintH, top-left at (x, y)) intersect.
Intersect(a, b) ==
    /\ a.x < b.x + Px(FootprintW) /\ b.x < a.x + Px(FootprintW)
    /\ a.y < b.y + Px(FootprintH) /\ b.y < a.y + Px(FootprintH)

\* C1: laid out with spacingX = 180 and spacingY = 160, no two distinct nodes of
\* the positioned tree have intersecting footprints; in particular no two
\* distinct nodes have the same (x, y).
C1_NoOverlap ==
    (pc = "laid" /\ argSX = Px(spacingX) /\ argSY = Px(spacingY)) =>
        \A p, q \in Paths(TL) : p # q => ~Intersect(NodeAt(TL, p), NodeAt(TL, q))

\* C2: in the tree layoutTree returns, every internal node at every depth has x
\* equal to the average of its first and its last child's x (with one child,
\* that child's x).
C2_Centering ==
    pc = "laid" =>
        \A p \in Paths(TL) :
            LET n == NodeAt(TL, p) IN
            IsInternal(n) => 2 * n.x = n.children[1].x + n.children[Len(n.children)].x

\* C3: in the tree layoutTree returns, the children of every internal node keep
\* the input order, their ranges [x - width/2, x + width/2] do not intersect in
\* their interiors, and the right edge of child i lies exactly spacingX/2 to the
\* left of the left edge of child i+1; a root at (0, 80) with two leaves and
\* spacing 180, 160 has width 450, x = 0 and its children at x = -135 and 135,
\* y = 240, width 180.
C3_SiblingsPacked ==
    pc = "laid" =>
        /\ \A p \in Paths(TL) :
              LET n == NodeAt(TL, p)
                  c == n.children
              IN /\ Len(c) = Len(NodeAt(node, p).children)
                 /\ \A i \in 1..Len(c) : c[i].id = NodeAt(node, p).children[i].id
                 /\ \A i \in 1..(Len(c) - 1) :
                       RightEdge(c[i]) + argSX \div 2 = LeftEdge(c[i + 1])
                 /\ \A i, j \in 1..Len(c) : i < j => RightEdge(c[i]) <= LeftEdge(c[j])
        /\ (node = TwoLeafTree /\ StandardArgs) =>
              /\ TL.x = 0 /\ TL.width = Px(450)
              /\ TL.children[1].x = -Px(135) /\ TL.children[2].x = Px(135)
              /\ \A i \in 1..2 : TL.children[i].y = Px(240) /\ TL.children[i].width = Px(180)

\* C3 witness: a laid-out tree in which a node below the root has several
\* children, the second of them with children of its own.
C3_Witness ==
    /\ pc = "laid"
    /\ \E p \in Paths(TL) :
          /\ p # <<>>
          /\ Len(NodeAt(TL, p).children) >= 2
          /\ IsInternal(NodeAt(TL, p).children[2])

\* C4: with positive spacingX every leaf has width spacingX, every internal node
\* with k children has width max(sum of the children's widths +
\* (spacingX/2)(k-1), spacingX), and so every width is >= spacingX and >= the sum
\* of the children's widths.
C4_Widths ==
    (pc = "laid" /\ argSX > 0) =>
        \A p \in Paths(TL) :
            LET n   == NodeAt(TL, p)
                k   == Len(n.children)
                sum == SumWidths(n.children)
            IN /\ IsLeaf(n) => n.width = argSX
               /\ IsInternal(n) => n.width = MathMax(sum + (argSX \div 2) * (k - 1), argSX)
               /\ n.width >= argSX
               /\ n.width >= sum

\* C4 witness: a laid-out tree with an internal node of three children, one of
\* them internal.
C4_Witness ==
    /\ pc = "laid" /\ argSX > 0
    /\ \E p \in Paths(TL) :
          /\ Len(NodeAt(TL, p).children) = 3
          /\ \E i \in 1..3 : IsInternal(NodeAt(TL, p).children[i])

\* C5: laid out from the root with anchor y = rootY, every node at depth d has
\* y = rootY + d * spacingY.
C5_Levels ==
    pc = "laid" => \A p \in Paths(TL) : NodeAt(TL, p).y = argY + Len(p) * argSY

\* C5 witness: a laid-out tree with nodes at depth 3.
C5_Witness == pc = "laid" /\ \E p \in Paths(TL) : Len(p) = 3

\* C6: for a positioned tree, getTreeBounds with the default accumulator returns
\* a finite box: minX the least x, maxX the greatest x + 100, minY the least y,
\* maxY the greatest y + 80 over the set of nodes (no visiting order enters);
\* for the root at (0, 80) with two leaves and spacing 180, 160 it is
\* minX = -135, maxX = 235, minY = 80, maxY = 320.
C6_Bounds ==
    pc = "bounded" =>
        LET ns == {NodeAt(TL, p) : p \in Paths(TL)} IN
        /\ bounds.minX = SetMin({n.x : n \in ns})
        /\ bounds.maxX = SetMax({n.x + Px(FootprintW) : n \in ns})
        /\ bounds.minY = SetMin({n.y : n \in ns})
        /\ bounds.maxY = SetMax({n.y + Px(FootprintH) : n \in ns})
        /\ \A v \in {bounds.minX, bounds.maxX, bounds.minY, bounds.maxY} :
              v # Infinity /\ v # -Infinity
        /\ bounds.minX < bounds.maxX /\ bounds.minY < bounds.maxY
        /\ (node = TwoLeafTree /\ StandardArgs) =>
              bounds = [minX |-> -Px(135), maxX |-> Px(235), minY |-> Px(80), maxY |-> Px(320)]

\* C6 witness: the bounds of a tree of three levels whose least x is not the
\* root's and whose greatest x is not its last node's.
C6_Witness ==
    /\ pc = "bounded"
    /\ \E p \in Paths(TL) : Len(p) = 2
    /\ bounds.minX < TL.x
    /\ \E p \in Paths(TL) :
          /\ IsInternal(NodeAt(TL, p))
          /\ bounds.maxX = NodeAt(TL, p).x + Px(FootprintW)

\* The root's x as layoutTree returned it.
LaidX == layoutTree(node, argX, argY, 0, 0, 1, argSX, argSY).x

\* C8: the re-centering step sets the root's x to (minX + maxX)/2 - 50, and
\* leaves it as laid out when the root's children are all leaves; (witness)
\* there are trees for which the root's x after the step is not the average
\* of its first and last child's x.
C8_Recenter ==
    pc = "centered" =>
        /\ 2 * (TL.x + Px(HalfFootprint)) = bounds.minX + bounds.maxX
        /\ bounds = getTreeBounds([TL EXCEPT !.x = LaidX], DefaultBounds)
        /\ (\A i \in 1..Len(TL.children) : IsLeaf(TL.children[i])) => TL.x = LaidX

\* C8 witness: after the step, with App's arguments, the root of an asymmetric
\* tree is not at the average of its first and last child.
C8_Witness ==
    /\ pc = "centered" /\ StandardArgs
    /\ IsInternal(TL)
    /\ 2 * TL.x # TL.children[1].x + TL.children[Len(TL.children)].x
    /\ TL.x # LaidX

-----------------------------------------------------------------------------
(* Properties of App *)

\* C7: after any sequence of edits through addFamilyMember the tree in root is
\* single-rooted and acyclic (one finite tree under root) and the ids of its
\* nodes are pairwise distinct.
C7_UniqueIds ==
    /\ Len(root) <= 1
    /\ root # <<>> =>
          /\ IsFiniteSet(Paths(root[1]))
          /\ \A p, q \in Paths(root[1]) :
                p # q => NodeAt(root[1], p).id # NodeAt(root[1], q).id

\* new is old with one leaf appended as the last child of the node whose id is
\* pid, every node of old kept in its place.
AppendsOneLeaf(old, pid, new) ==
    \E p \in Paths(old) :
        LET q == p \o <<Len(NodeAt(old, p).children) + 1>> IN
        /\ NodeAt(old, p).id = pid
        /\ Paths(new) = Paths(old) \cup {q}
        /\ q \notin Paths(old)
        /\ IsLeaf(NodeAt(new, q))
        /\ \A o \in Paths(old) :
              /\ NodeAt(new, o).id = NodeAt(old, o).id
              /\ NodeAt(new, o).name = NodeAt(old, o).name

C9_Step ==
    /\ showInput' => (root' # <<>> /\ selectedParent' \in NodeIds(root'[1]))
    /\ (root # <<>> /\ root' # root) =>
          /\ ~Falsy(selectedParent)
          /\ root' # <<>>
          /\ AppendsOneLeaf(root[1], selectedParent, root'[1])

\* C9: in every reachable state showInput implies that selectedParent is the id
\* of a node of the tree; once a root exists no add is made with a null parent,
\* the root is never replaced, and each add keeps every node in its place and
\* appends exactly one new leaf as the last child of the selected parent.
C9_AddsOneLeafUnderSelected == [][C9_Step]_vars

\* C10: whenever a capture (toPng) started by handleExport is in progress,
\* isExporting is true, whatever the clicks on Export.
C10_ExportingWhileCapturing == captures > 0 => isExporting

====
